---- MODULE Spec2Model ----
(***************************************************************************)
(* github-agent-collab: the agent orchestrator (src/src/main.py), the      *)
(* forge operations shared by the agents (src/src/agents/base_agent.py)    *)
(* and the merge agent (src/src/agents/merge_agent.py).                    *)
(*                                                                         *)
(* Python values are kept as Python prints them: "True", "False", "None". *)
(* A check-run name is a sequence of characters, so that lower() and       *)
(* startswith() are computed and not assumed.                              *)
(***************************************************************************)
EXTENDS Integers, Sequences, FiniteSets, TLC

\* ------------------------------------------------------------------ bounds
\* Longest review listing and check-run listing CriteriaInit draws.
MaxReviews == 2
MaxChecks == 2
\* Number of writes the other users of the forge make in one behaviour.
MaxEnv == 1
\* History counters stop counting here.
MaxCount == 2

\* ------------------------------------------------------- forge vocabulary
PRs == {1, 2}
Reviewers == {"alice", "bob"}
ReviewStates == {"APPROVED", "CHANGES_REQUESTED", "COMMENTED"}
Conclusions == {"success", "failure"}

NameTests == <<"T", "e", "s", "t", "s">>
NameUnitTest == <<"u", "n", "i", "t", "-", "t", "e", "s", "t">>
NameLint == <<"l", "i", "n", "t">>
CheckNames == {NameTests, NameUnitTest, NameLint}

Review(u, s) == [user |-> u, state |-> s]
CheckRun(n, c) == [name |-> n, conclusion |-> c]
AllReviews == {Review(u, s) : u \in Reviewers, s \in ReviewStates}
AllCheckRuns == {CheckRun(n, c) : n \in CheckNames, c \in Conclusions}

SeqsUpTo(S, n) == UNION {[1..k -> S] : k \in 0..n}

\* ------------------------------------------------------------ Python glue
PyBool(b) == IF b THEN "True" ELSE "False"
\* bool(v) for the values a status field takes: None and False are falsy.
Truthy(v) == v = "True"

\* str.lower() on the characters check-run names and titles are made of.
LowerChar(c) ==
    CASE c = "T" -> "t"
      [] c = "E" -> "e"
      [] c = "S" -> "s"
      [] c = "F" -> "f"
      [] c = "I" -> "i"
      [] c = "U" -> "u"
      [] c = "A" -> "a"
      [] OTHER -> c
lower(s) == [i \in 1..Len(s) |-> LowerChar(s[i])]
startswith(s, prefix) ==
    /\ Len(s) >= Len(prefix)
    /\ \A i \in 1..Len(prefix) : s[i] = prefix[i]
TestPrefix == <<"t", "e", "s", "t">>

\* --------------------------------------------------- MergeAgent, pure part
\* merge_agent.py:42-46: the dict filled in listing order, a later review of
\* the same login overwriting the earlier one.
RECURSIVE latest_reviews_first_wins(_)
latest_reviews_first_wins(rs) ==
    IF rs = <<>> THEN [u \in {} |-> "None"]
    ELSE LET prev == latest_reviews_first_wins(SubSeq(rs, 1, Len(rs) - 1))
             r == rs[Len(rs)]
         IN [u \in DOMAIN prev \cup {r.user} |->
                IF u \in DOMAIN prev THEN prev[u] ELSE r.state]

RECURSIVE latest_reviews(_)
latest_reviews(rs) ==
    IF rs = <<>> THEN [u \in {} |-> "None"]
    ELSE LET prev == latest_reviews(SubSeq(rs, 1, Len(rs) - 1))
             r == rs[Len(rs)]
         IN [u \in DOMAIN prev \cup {r.user} |->
                IF u = r.user THEN r.state ELSE prev[u]]

\* merge_agent.py:39-54
is_pr_approved_no_veto(rs) ==
    LET latest == latest_reviews(rs)
        approvals == Cardinality({u \in DOMAIN latest : latest[u] = "APPROVED"})
    IN approvals >= 1
is_pr_approved(rs) ==
    LET latest == latest_reviews(rs)
        approvals == Cardinality({u \in DOMAIN latest : latest[u] = "APPROVED"})
    IN approvals >= 1 /\ \A u \in DOMAIN latest : latest[u] # "CHANGES_REQUESTED"

\* merge_agent.py:58-65
InitialStatus ==
    [can_merge |-> "True", checks_passed |-> "False", tests_passed |-> "False",
     review_requirements_met |-> "False", branch_up_to_date |-> "False",
     blocking_issues |-> <<>>]
\* The status of an evaluation that has not run check_merge_criteria.
NoStatus ==
    [can_merge |-> "unset", checks_passed |-> "unset", tests_passed |-> "unset",
     review_requirements_met |-> "unset", branch_up_to_date |-> "unset",
     blocking_issues |-> <<>>]

\* One sub-check's result stored, and on a falsy result one blocking issue
\* appended and can_merge cleared (the four `if not status[...]` blocks).
RecordFailOpen(st, field, value, issue) == [st EXCEPT ![field] = value]
Record(st, field, value, issue) ==
    IF Truthy(value) THEN [st EXCEPT ![field] = value]
    ELSE [st EXCEPT ![field] = value,
                    !.blocking_issues = Append(@, issue),
                    !.can_merge = "False"]

\* merge_agent.py:69-70
checks_passed(cs) == PyBool(\A i \in 1..Len(cs) : cs[i].conclusion = "success")
\* merge_agent.py:76-78: next(...) takes the first run whose lowered name
\* starts with "test"; `test_check and ...` is None when there is none.
tests_passed_any_name(cs) ==
    IF cs = <<>> THEN "None" ELSE PyBool(cs[1].conclusion = "success")
tests_passed(cs) ==
    LET hits == {i \in 1..Len(cs) : startswith(lower(cs[i].name), TestPrefix)}
    IN IF hits = {} THEN "None"
       ELSE LET first == CHOOSE i \in hits : \A j \in hits : i <= j
            IN PyBool(cs[first].conclusion = "success")
\* merge_agent.py:85-89: every listed review state counts, not the latest
\* per reviewer.
review_requirements_met(rs) ==
    LET review_states == [i \in 1..Len(rs) |-> rs[i].state]
        count == Cardinality({i \in 1..Len(rs) : review_states[i] = "APPROVED"})
    IN PyBool(count >= 1 /\ \A i \in 1..Len(rs) : review_states[i] # "CHANGES_REQUESTED")
\* merge_agent.py:96
branch_up_to_date(prSha, headSha) == PyBool(prSha = headSha)

\* The three forge reads of check_merge_criteria, in the order of the code.
ApplyChecks(st, cs) ==
    Record(Record(st, "checks_passed", checks_passed(cs), "CI checks must pass"),
           "tests_passed", tests_passed(cs), "All tests must pass")
ApplyReviews(st, rs) ==
    Record(st, "review_requirements_met", review_requirements_met(rs),
           "Required reviews must be approved")
ApplyBranch(st, prSha, headSha) ==
    Record(st, "branch_up_to_date", branch_up_to_date(prSha, headSha),
           "Branch must be up to date with base")
\* merge_agent.py:56-101
check_merge_criteria(cs, rs, prSha, headSha) ==
    ApplyBranch(ApplyReviews(ApplyChecks(InitialStatus, cs), rs), prSha, headSha)

\* ------------------------------------------------------------------- state
VARIABLES
    \* the forge (the remote repository, the single source of truth)
    prState,      \* pull request -> "open" | "merged"
    reviews,      \* pull request -> its reviews, in listing order
    checks,       \* pull request -> the check runs of its most recent commit
    prBaseSha,    \* pull request -> the base sha recorded on it (pr.base.sha)
    baseHead,     \* the base branch's current head sha (base.commit.sha)
    comments,     \* pull request -> comments posted on it (stops at MaxCount)
    envSteps,     \* writes made so far by the other users of the forge
    \* AgentOrchestrator.run / run_agent_cycle
    opc,          \* "cycle" | "sleep" | "backoff" | "terminated"
    agentIdx,     \* index in self.agents of the agent to run next, or running
    invoked,      \* roles whose process was invoked in this cycle, in order
    raised,       \* some process raised in this cycle (logged at main.py:49)
    \* MergeAgent.process / evaluate_pr_for_merge
    mpc,          \* the merge agent's position
    snapshot,     \* open_prs as get_open_prs returned it
    queue,        \* the part of open_prs the for loop has not reached
    cur,          \* pr["number"] of the evaluation under way, 0 before the first
    seen,         \* what the evaluation under way read from the forge
    approved,     \* is_pr_approved's result: "unset" | "True" | "False"
    status,       \* merge_status
    evalActs,     \* merge_pr / comment_on_pr invocations of this evaluation
    evalResult,   \* "none" | "running" | "returned" | "raised"
    evaluated,    \* pull requests whose evaluation began in this process call
    mergedAtStart, \* the pull request was already merged when its evaluation began
    cycle,        \* run_agent_cycle calls begun so far (stops at MaxCount)
    \* the forge, continued
    prTitle,      \* pull request -> its title
    specDoc,      \* specifications/current.yaml on the default branch: its
                  \* features in order, <<>> when there is no document
    specUpdate,   \* the document proposed by the latest "Update Specification
                  \* Status" pull request, <<>> when there is none
    \* SpecificationAgent.review_and_update_specifications
    current_specs, \* the document as the latest run left it in memory
    updated,      \* the run's `updated` flag
    \* the forge, continued
    commits,      \* pull request -> its commits, as pr.get_commits() lists them
    fileIssues,   \* pull request -> the issues check_code and check_tests
                  \* find in its files
    \* ReviewAgent.process / review_pull_request
    rpc,          \* the review agent's position
    rqueue,       \* the part of open_prs its for loop has not reached
    rcur,         \* pr["number"] of the review under way, 0 before the first
    review_comments, \* the issues collected by the review under way
    \* the forge, continued
    branches,     \* features whose branch feat/<feature-id> exists
    files,        \* feature -> the files created on its branch, in order
    implPulls,    \* feature -> implementation pull requests opened for it
                  \* (stops at MaxCount)
    \* DeveloperAgent.process / implement_feature
    dpc,          \* the developer agent's position
    dqueue,       \* the features its for loop has not reached (indices)
    dcur,         \* index of the feature of the implement_feature call under
                  \* way or last made, 0 before the first
    devActs       \* what that call did

forgeVars == <<prState, reviews, checks, prBaseSha, baseHead, comments>>
orchVars == <<opc, agentIdx, invoked, raised, cycle>>
evalVars == <<seen, approved, status, evalActs, evalResult, mergedAtStart>>
mergeVars == <<mpc, snapshot, queue, cur, evaluated, evalVars>>
specForge == <<prTitle, specDoc, specUpdate>>
reviewForge == <<commits, fileIssues>>
devForge == <<branches, files, implPulls>>
forge2Vars == <<specForge, reviewForge, devForge>>
specVars == <<current_specs, updated>>
reviewVars == <<rpc, rqueue, rcur, review_comments>>
devVars == <<dpc, dqueue, dcur, devActs>>
sideVars == <<forge2Vars, specVars, reviewVars, devVars>>
vars == <<forgeVars, envSteps, orchVars, mergeVars, sideVars>>

\* main.py:34-39
Agents == <<"SpecificationAgent", "DeveloperAgent", "ReviewAgent", "MergeAgent">>

Outcomes == {"ok", "raise"}
Bump(n) == IF n < MaxCount THEN n + 1 ELSE n

NoSeen == [base_sha |-> -1, reviews |-> <<>>, checks |-> <<>>, reviews2 |-> <<>>,
           head |-> -1]
NoActs == [merge |-> 0, comment |-> 0]

\* The listings the repository starts with.
InitReviewLists ==
    { <<>>,
      <<Review("alice", "APPROVED")>>,
      <<Review("alice", "CHANGES_REQUESTED"), Review("alice", "APPROVED")>> }
InitCheckLists ==
    { <<CheckRun(NameTests, "success")>>,
      <<CheckRun(NameUnitTest, "success")>> }
\* The listings CI replaces them with while the agents run.
ExternalCheckLists == InitCheckLists \cup { <<CheckRun(NameTests, "failure")>> }

EvalIdle ==
    /\ seen = NoSeen
    /\ approved = "unset"
    /\ status = NoStatus
    /\ evalActs = NoActs
    /\ evalResult = "none"
    /\ mergedAtStart = FALSE

MergeIdle ==
    /\ mpc = "idle"
    /\ snapshot = <<>>
    /\ queue = <<>>
    /\ cur = 0
    /\ evaluated = {}
    /\ EvalIdle

\* Nothing of the specification document or of the pull request titles is
\* looked at.
SpecIdle ==
    /\ prTitle = [p \in PRs |-> <<>>]
    /\ specDoc = <<>>
    /\ specUpdate = <<>>
    /\ current_specs = <<>>
    /\ updated = FALSE

\* review_agent.py:12, before process is called
ReviewIdle ==
    /\ rpc = "idle"
    /\ rqueue = <<>>
    /\ rcur = 0
    /\ review_comments = <<>>

\* No commit and no file is looked at.
ReviewForgeIdle ==
    /\ commits = [p \in PRs |-> <<>>]
    /\ fileIssues = [p \in PRs |-> <<>>]

NoDevActs ==
    [existed |-> FALSE, create_branch |-> 0, branch_ok |-> FALSE,
     create_file |-> 0, created |-> 0, create_pull_request |-> 0, opened |-> 0]
\* No feature branch is looked at.
DevForgeIdle ==
    /\ branches = {}
    /\ files = <<>>
    /\ implPulls = <<>>
\* developer_agent.py:14, before process is called
DevIdle ==
    /\ dpc = "idle"
    /\ dqueue = <<>>
    /\ dcur = 0
    /\ devActs = NoDevActs

SideIdle ==
    /\ SpecIdle
    /\ ReviewForgeIdle
    /\ ReviewIdle
    /\ DevForgeIdle
    /\ DevIdle

OrchInit ==
    /\ opc = "cycle"
    /\ agentIdx = 1
    /\ invoked = <<>>
    /\ raised = FALSE

Init ==
    /\ prState = [p \in PRs |-> "open"]
    /\ reviews \in [PRs -> InitReviewLists]
    /\ checks \in [PRs -> InitCheckLists]
    /\ prBaseSha = [p \in PRs |-> 1]
    /\ baseHead = 1
    /\ comments = [p \in PRs |-> 0]
    /\ envSteps = 0
    /\ OrchInit
    /\ cycle = MaxCount
    /\ MergeIdle
    /\ SideIdle

\* ------------------------------------------------- the forge's other users
\* The reviews submitted while the agents run.
ExternalReviews == {Review("bob", "APPROVED"), Review("bob", "CHANGES_REQUESTED")}

\* A reviewer submits a review (what pr.get_reviews() lists next).
ExternalReview ==
    /\ envSteps < MaxEnv
    /\ \E p \in PRs, r \in ExternalReviews :
          /\ prState[p] = "open"
          /\ reviews' = [reviews EXCEPT ![p] = Append(@, r)]
    /\ envSteps' = envSteps + 1
    /\ UNCHANGED <<prState, checks, prBaseSha, baseHead, comments,
                   orchVars, mergeVars>>
    /\ UNCHANGED sideVars

\* CI reports on the most recent commit (what get_check_runs() lists next).
ExternalCheckRuns ==
    /\ envSteps < MaxEnv
    /\ \E p \in PRs, cs \in ExternalCheckLists :
          /\ prState[p] = "open"
          /\ cs # checks[p]
          /\ checks' = [checks EXCEPT ![p] = cs]
    /\ envSteps' = envSteps + 1
    /\ UNCHANGED <<prState, reviews, prBaseSha, baseHead, comments,
                   orchVars, mergeVars>>
    /\ UNCHANGED sideVars

\* Somebody pushes to the base branch (what get_branch() returns next).
BaseAdvance ==
    /\ envSteps < MaxEnv
    /\ baseHead' = baseHead + 1
    /\ envSteps' = envSteps + 1
    /\ UNCHANGED <<prState, reviews, checks, prBaseSha, comments,
                   orchVars, mergeVars>>
    /\ UNCHANGED sideVars

\* Somebody else merges an open pull request: the base branch gets the merge
\* commit, the sha recorded on the pull request stays.
ExternalMerge ==
    /\ envSteps < MaxEnv
    /\ \E p \in PRs :
          /\ prState[p] = "open"
          /\ prState' = [prState EXCEPT ![p] = "merged"]
    /\ baseHead' = baseHead + 1
    /\ envSteps' = envSteps + 1
    /\ UNCHANGED <<reviews, checks, prBaseSha, comments,
                   orchVars, mergeVars>>
    /\ UNCHANGED sideVars

EnvNext == ExternalReview \/ ExternalCheckRuns \/ BaseAdvance \/ ExternalMerge

\* ------------------------------------------------------- AgentOrchestrator
\* main.py:43-49, one iteration of the for loop: what the try block does after
\* agent.process() returned or raised. The exception is logged and swallowed.
AfterProcessReraise(outcome) ==
    /\ raised' = (raised \/ outcome = "raise")
    /\ IF outcome = "raise"
       THEN opc' = "terminated" /\ agentIdx' = agentIdx
       ELSE IF agentIdx < Len(Agents)
            THEN agentIdx' = agentIdx + 1 /\ opc' = "cycle"
            ELSE agentIdx' = agentIdx /\ opc' = "sleep"
AfterProcess(outcome) ==
    /\ raised' = (raised \/ outcome = "raise")
    /\ IF agentIdx < Len(Agents)
       THEN agentIdx' = agentIdx + 1 /\ opc' = "cycle"
       ELSE agentIdx' = agentIdx /\ opc' = "sleep"

\* SpecificationAgent, DeveloperAgent and ReviewAgent: process() runs to its
\* end or raises (specification_agent.py:14, developer_agent.py:14,
\* review_agent.py:12).
RunAgents(idxs) ==
    /\ opc = "cycle"
    /\ agentIdx \in idxs
    /\ invoked' = Append(invoked, Agents[agentIdx])
    /\ \E outcome \in Outcomes : AfterProcess(outcome)
    /\ UNCHANGED <<forgeVars, envSteps, mergeVars, cycle>>
    /\ UNCHANGED sideVars
RunAgent == RunAgents(1..3)

\* main.py:55-57: the next pass of `while True` calls run_agent_cycle again.
NextCycleOnce ==
    /\ opc' = "terminated"
    /\ UNCHANGED <<agentIdx, invoked, raised, cycle>>
NextCycle ==
    /\ opc' = "cycle"
    /\ cycle' = Bump(cycle)
    /\ agentIdx' = 1
    /\ invoked' = <<>>
    /\ raised' = FALSE

\* main.py:58-59: the cycle is over; log, sleep the interval. An Exception
\* raised here is caught at main.py:60 (run_agent_cycle itself lets none out).
Sleep ==
    /\ opc = "sleep"
    /\ \E outcome \in Outcomes :
          IF outcome = "ok" THEN NextCycle
          ELSE /\ opc' = "backoff"
               /\ UNCHANGED <<agentIdx, invoked, raised, cycle>>
    /\ UNCHANGED <<forgeVars, envSteps, mergeVars>>
    /\ UNCHANGED sideVars

\* main.py:60-62: log, sleep 10, retry.
Backoff ==
    /\ opc = "backoff"
    /\ NextCycle
    /\ UNCHANGED <<forgeVars, envSteps, mergeVars>>
    /\ UNCHANGED sideVars

\* -------------------------------------------------------------- BaseAgent
\* The forge lists pull requests newest first.
RECURSIVE Descending(_)
Descending(S) ==
    IF S = {} THEN <<>>
    ELSE LET m == CHOOSE x \in S : \A y \in S : y <= x
         IN <<m>> \o Descending(S \ {m})

\* base_agent.py:57-71: the open pull requests, or [] when the listing fails.
get_open_prs(outcome) ==
    IF outcome = "ok" THEN Descending({p \in PRs : prState[p] = "open"}) ELSE <<>>

\* base_agent.py:73-82. outcome "raise": get_pull fails, pr.merge is not
\* reached. Otherwise pr.merge is called; the forge refuses a pull request
\* that is not open and may refuse an open one (conflict, protection). The
\* exception is caught either way and merge_pr returns False, so the
\* evaluation that called it returns.
merge_pr_uncaught(p, outcome, accept) ==
    /\ IF outcome = "ok" /\ accept /\ prState[p] = "open"
       THEN /\ prState' = [prState EXCEPT ![p] = "merged"]
            /\ baseHead' = baseHead + 1
            /\ evalResult' = "returned"
       ELSE /\ UNCHANGED <<prState, baseHead>>
            /\ evalResult' = "raised"
merge_pr(p, outcome, accept) ==
    /\ IF outcome = "ok" /\ accept /\ prState[p] = "open"
       THEN /\ prState' = [prState EXCEPT ![p] = "merged"]
            /\ baseHead' = baseHead + 1
       ELSE UNCHANGED <<prState, baseHead>>
    /\ evalResult' = "returned"

\* base_agent.py:46-55
comment_on_pr(p, outcome) ==
    comments' = [comments EXCEPT ![p] = IF outcome = "ok" THEN Bump(@) ELSE @]

\* ------------------------------------------------------------- MergeAgent
\* An exception leaves evaluate_pr_for_merge and process (merge_agent.py:16
\* has no handler): the for loop is abandoned.
RaiseOut ==
    /\ evalResult' = "raised"
    /\ mpc' = "raise"

\* main.py:45-46 for MergeAgent, then merge_agent.py:14.
StartMergeAgent ==
    /\ opc = "cycle"
    /\ agentIdx = 4
    /\ mpc = "idle"
    /\ invoked' = Append(invoked, Agents[agentIdx])
    /\ \E outcome \in Outcomes :
          /\ snapshot' = get_open_prs(outcome)
          /\ queue' = get_open_prs(outcome)
    /\ mpc' = "for"
    /\ evaluated' = {}
    /\ UNCHANGED <<forgeVars, envSteps, opc, agentIdx, raised, cycle, cur, evalVars>>
    /\ UNCHANGED sideVars

\* merge_agent.py:15-21: the next pr of open_prs, and repo.get_pull on it.
EvalGetPull ==
    /\ mpc = "for"
    /\ queue # <<>>
    /\ cur' = Head(queue)
    /\ queue' = Tail(queue)
    /\ evaluated' = evaluated \cup {Head(queue)}
    /\ approved' = "unset"
    /\ status' = NoStatus
    /\ evalActs' = NoActs
    /\ mergedAtStart' = (prState[Head(queue)] = "merged")
    /\ \E outcome \in Outcomes :
          IF outcome = "ok"
          THEN /\ seen' = [NoSeen EXCEPT !.base_sha = prBaseSha[Head(queue)]]
               /\ evalResult' = "running"
               /\ mpc' = "is_pr_approved"
          ELSE /\ seen' = NoSeen
               /\ RaiseOut
    /\ UNCHANGED <<forgeVars, envSteps, orchVars, snapshot>>
    /\ UNCHANGED sideVars

\* merge_agent.py:24-25 with 39-54
EvalIsPrApproved ==
    /\ mpc = "is_pr_approved"
    /\ \E outcome \in Outcomes :
          IF outcome = "ok"
          THEN /\ seen' = [seen EXCEPT !.reviews = reviews[cur]]
               /\ approved' = PyBool(is_pr_approved(reviews[cur]))
               /\ IF is_pr_approved(reviews[cur])
                  THEN mpc' = "get_check_runs" /\ evalResult' = evalResult
                  ELSE mpc' = "for" /\ evalResult' = "returned"
          ELSE /\ RaiseOut
               /\ UNCHANGED <<seen, approved>>
    /\ UNCHANGED <<forgeVars, envSteps, orchVars, snapshot, queue, cur, evaluated,
                   status, evalActs, mergedAtStart>>
    /\ UNCHANGED sideVars

\* merge_agent.py:58-81
EvalCheckRuns ==
    /\ mpc = "get_check_runs"
    /\ \E outcome \in Outcomes :
          IF outcome = "ok"
          THEN /\ seen' = [seen EXCEPT !.checks = checks[cur]]
               /\ status' = ApplyChecks(InitialStatus, checks[cur])
               /\ mpc' = "get_reviews"
               /\ evalResult' = evalResult
          ELSE /\ RaiseOut
               /\ UNCHANGED <<seen, status>>
    /\ UNCHANGED <<forgeVars, envSteps, orchVars, snapshot, queue, cur, evaluated,
                   approved, evalActs, mergedAtStart>>
    /\ UNCHANGED sideVars

\* merge_agent.py:84-92
EvalReviews ==
    /\ mpc = "get_reviews"
    /\ \E outcome \in Outcomes :
          IF outcome = "ok"
          THEN /\ seen' = [seen EXCEPT !.reviews2 = reviews[cur]]
               /\ status' = ApplyReviews(status, reviews[cur])
               /\ mpc' = "get_branch"
               /\ evalResult' = evalResult
          ELSE /\ RaiseOut
               /\ UNCHANGED <<seen, status>>
    /\ UNCHANGED <<forgeVars, envSteps, orchVars, snapshot, queue, cur, evaluated,
                   approved, evalActs, mergedAtStart>>
    /\ UNCHANGED sideVars

\* merge_agent.py:30-37: which of the two actions follows merge_status.
AfterCriteriaAlwaysMerge(st) == "generate_merge_commit_message"
AfterCriteria(st) ==
    IF Truthy(st.can_merge) THEN "generate_merge_commit_message" ELSE "comment_on_pr"

\* merge_agent.py:95-101, then the branch at merge_agent.py:30
EvalBranch ==
    /\ mpc = "get_branch"
    /\ \E outcome \in Outcomes :
          IF outcome = "ok"
          THEN /\ seen' = [seen EXCEPT !.head = baseHead]
               /\ status' = ApplyBranch(status, seen.base_sha, baseHead)
               /\ mpc' = AfterCriteria(ApplyBranch(status, seen.base_sha, baseHead))
               /\ evalResult' = evalResult
          ELSE /\ RaiseOut
               /\ UNCHANGED <<seen, status>>
    /\ UNCHANGED <<forgeVars, envSteps, orchVars, snapshot, queue, cur, evaluated,
                   approved, evalActs, mergedAtStart>>
    /\ UNCHANGED sideVars

\* merge_agent.py:32 with 103-129: the message lists pr.get_reviews() again.
EvalCommitMessage ==
    /\ mpc = "generate_merge_commit_message"
    /\ \E outcome \in Outcomes :
          IF outcome = "ok"
          THEN mpc' = "merge_pr" /\ evalResult' = evalResult
          ELSE RaiseOut
    /\ UNCHANGED <<forgeVars, envSteps, orchVars, snapshot, queue, cur, evaluated,
                   seen, approved, status, evalActs, mergedAtStart>>
    /\ UNCHANGED sideVars

\* merge_agent.py:33
EvalMerge ==
    /\ mpc = "merge_pr"
    /\ evalActs' = [evalActs EXCEPT !.merge = @ + 1]
    /\ \E outcome \in Outcomes, accept \in BOOLEAN : merge_pr(cur, outcome, accept)
    /\ mpc' = IF evalResult' = "raised" THEN "raise" ELSE "for"
    /\ UNCHANGED <<reviews, checks, prBaseSha, comments, envSteps, orchVars,
                   snapshot, queue, cur, evaluated, seen, approved, status,
                   mergedAtStart>>
    /\ UNCHANGED sideVars

\* merge_agent.py:36-37
EvalCommentOnce ==
    /\ mpc = "comment_on_pr"
    /\ IF comments[cur] = 0
       THEN /\ evalActs' = [evalActs EXCEPT !.comment = @ + 1]
            /\ \E outcome \in Outcomes : comment_on_pr(cur, outcome)
       ELSE UNCHANGED <<evalActs, comments>>
    /\ evalResult' = "returned"
    /\ mpc' = "for"
    /\ UNCHANGED <<prState, reviews, checks, prBaseSha, baseHead,
                   envSteps, orchVars, snapshot, queue, cur, evaluated, seen,
                   approved, status, mergedAtStart>>
    /\ UNCHANGED sideVars
EvalComment ==
    /\ mpc = "comment_on_pr"
    /\ evalActs' = [evalActs EXCEPT !.comment = @ + 1]
    /\ \E outcome \in Outcomes : comment_on_pr(cur, outcome)
    /\ evalResult' = "returned"
    /\ mpc' = "for"
    /\ UNCHANGED <<prState, reviews, checks, prBaseSha, baseHead,
                   envSteps, orchVars, snapshot, queue, cur, evaluated, seen,
                   approved, status, mergedAtStart>>
    /\ UNCHANGED sideVars

\* merge_agent.py:15: open_prs is exhausted, process returns.
ProcessReturn ==
    /\ mpc = "for"
    /\ queue = <<>>
    /\ mpc' = "return"
    /\ UNCHANGED <<forgeVars, envSteps, orchVars, snapshot, queue, cur, evaluated,
                   evalVars>>
    /\ UNCHANGED sideVars

\* main.py:47-49 for MergeAgent: back in run_agent_cycle.
CompleteMergeAgent ==
    /\ opc = "cycle"
    /\ mpc \in {"return", "raise"}
    /\ AfterProcess(IF mpc = "raise" THEN "raise" ELSE "ok")
    /\ mpc' = "idle"
    /\ snapshot' = <<>>
    /\ queue' = <<>>
    /\ cur' = 0
    /\ evaluated' = {}
    /\ seen' = NoSeen
    /\ approved' = "unset"
    /\ status' = NoStatus
    /\ evalActs' = NoActs
    /\ evalResult' = "none"
    /\ mergedAtStart' = FALSE
    /\ UNCHANGED <<forgeVars, envSteps, invoked, cycle>>
    /\ UNCHANGED sideVars

MergeAgentNext ==
    \/ StartMergeAgent
    \/ EvalGetPull
    \/ EvalIsPrApproved
    \/ EvalCheckRuns
    \/ EvalReviews
    \/ EvalBranch
    \/ EvalCommitMessage
    \/ EvalMerge
    \/ EvalComment
    \/ ProcessReturn
    \/ CompleteMergeAgent

ProgramNext == RunAgent \/ Sleep \/ Backoff \/ MergeAgentNext

Next == ProgramNext \/ EnvNext

Spec == Init /\ [][Next]_vars

\* The orchestrator is one running process: a step of the program that can be
\* taken is taken (every forge call returns or raises). Nothing is assumed of
\* the forge's other users.
\* It starts from one repository: two approved pull requests, the first with a
\* successful "Tests" run, the second with a successful "unit-test" run.
LiveInit ==
    /\ Init
    /\ reviews = [p \in PRs |-> <<Review("alice", "APPROVED")>>]
    /\ checks = [p \in PRs |-> IF p = 1 THEN <<CheckRun(NameTests, "success")>>
                                ELSE <<CheckRun(NameUnitTest, "success")>>]
LiveSpec == LiveInit /\ [][Next]_vars /\ WF_vars(ProgramNext)

\* ------------------------------------------ MergeAgent's functions alone
\* is_pr_approved and check_merge_criteria called once each on pull request
\* 1, whose review listing, check runs and recorded base sha are drawn from
\* every listing up to MaxReviews and MaxChecks long.
CriteriaInit ==
    /\ prState = [p \in PRs |-> "open"]
    /\ reviews \in {[p \in PRs |-> IF p = 1 THEN rs ELSE <<>>] :
                      rs \in SeqsUpTo(AllReviews, MaxReviews)}
    /\ checks \in {[p \in PRs |-> IF p = 1 THEN cs ELSE <<>>] :
                     cs \in SeqsUpTo(AllCheckRuns, MaxChecks)}
    /\ prBaseSha \in {[p \in PRs |-> IF p = 1 THEN sha ELSE 1] : sha \in {0, 1}}
    /\ baseHead = 1
    /\ comments = [p \in PRs |-> 0]
    /\ envSteps = 0
    /\ OrchInit
    /\ cycle = MaxCount
    /\ MergeIdle
    /\ SideIdle

\* merge_agent.py:39-54 on the listing of pull request 1
CallIsPrApproved ==
    /\ approved = "unset"
    /\ approved' = PyBool(is_pr_approved(reviews[1]))
    /\ UNCHANGED <<forgeVars, envSteps, orchVars, mpc, snapshot, queue, cur,
                   evaluated, seen, status, evalActs, evalResult, mergedAtStart>>
    /\ UNCHANGED sideVars

\* merge_agent.py:56-101 on pull request 1
CallCheckMergeCriteria ==
    /\ status = NoStatus
    /\ status' = check_merge_criteria(checks[1], reviews[1], prBaseSha[1], baseHead)
    /\ UNCHANGED <<forgeVars, envSteps, orchVars, mpc, snapshot, queue, cur,
                   evaluated, seen, approved, evalActs, evalResult, mergedAtStart>>
    /\ UNCHANGED sideVars

CriteriaNext == CallIsPrApproved \/ CallCheckMergeCriteria

CriteriaSpec == CriteriaInit /\ [][CriteriaNext]_vars

\* ------------------------------------------------------------------ claims
SubChecks == <<"checks_passed", "tests_passed", "review_requirements_met",
               "branch_up_to_date">>
Issues == <<"CI checks must pass", "All tests must pass",
            "Required reviews must be approved",
            "Branch must be up to date with base">>
\* The sub-checks of st that are not true (False, or None for tests_passed).
Failing(st) == {i \in 1..4 : ~Truthy(st[SubChecks[i]])}
RECURSIVE IssuesOf(_, _)
IssuesOf(st, i) ==
    IF i > 4 THEN <<>>
    ELSE (IF i \in Failing(st) THEN <<Issues[i]>> ELSE <<>>) \o IssuesOf(st, i + 1)

\* C1: whatever the check runs, the review listing and the shas are, the
\* status check_merge_criteria returns has can_merge true exactly when its
\* four sub-checks are all true, and blocking_issues holds one entry per
\* sub-check that is not true (so its length is their number), in the order
\* of the sub-checks.
C1_CanMergeIsConjunction ==
    status # NoStatus /\ mpc = "idle" =>
        /\ status.can_merge \in {"True", "False"}
        /\ Truthy(status.can_merge) <=> Failing(status) = {}
        /\ Len(status.blocking_issues) = Cardinality(Failing(status))
        /\ status.blocking_issues = IssuesOf(status, 1)
C1_Witness ==
    /\ status # NoStatus
    /\ mpc = "idle"
    /\ Cardinality(Failing(status)) = 2
    /\ status.tests_passed = "False"
    /\ status.can_merge = "False"

\* C5: on one review listing, the review-requirements sub-check of
\* check_merge_criteria gives the result is_pr_approved gives.
C5_SameApprovalGate ==
    approved # "unset" /\ status # NoStatus /\ mpc = "idle" =>
        status.review_requirements_met = approved

\* The reviews that are their reviewer's last in the listing.
IsLatest(rs, i) == \A j \in (i + 1)..Len(rs) : rs[j].user # rs[i].user
LatestWinsGate(rs) ==
    /\ \E i \in 1..Len(rs) : IsLatest(rs, i) /\ rs[i].state = "APPROVED"
    /\ \A i \in 1..Len(rs) : IsLatest(rs, i) => rs[i].state # "CHANGES_REQUESTED"

\* C8: is_pr_approved is true exactly when, of the reviews that are their
\* reviewer's last in listing order, one is APPROVED and none is
\* CHANGES_REQUESTED; a reviewer's earlier reviews do not count.
C8_LatestWins ==
    approved # "unset" /\ mpc = "idle" =>
        approved = PyBool(LatestWinsGate(reviews[1]))
C8_Witness ==
    /\ approved = "True"
    /\ mpc = "idle"
    /\ \E i \in 1..Len(reviews[1]) :
          /\ reviews[1][i].state = "CHANGES_REQUESTED"
          /\ ~IsLatest(reviews[1], i)

\* What follows is stated of the running system (Spec).
Range(q) == {q[i] : i \in 1..Len(q)}
IsPrefix(a, b) == Len(a) <= Len(b) /\ \A i \in 1..Len(a) : a[i] = b[i]

\* C2: an evaluation that passed the pre-filter and returned (no fetch
\* raised) invoked exactly one of merge_pr and comment_on_pr, once: merge_pr
\* when can_merge is true, comment_on_pr otherwise; and no evaluation ever
\* invokes more than one action.
C2_ExactlyOneAction ==
    /\ evalActs.merge + evalActs.comment <= 1
    /\ evalResult = "returned" /\ approved = "True" =>
          IF Truthy(status.can_merge)
          THEN evalActs = [merge |-> 1, comment |-> 0]
          ELSE evalActs = [merge |-> 0, comment |-> 1]
C2_Witness ==
    /\ evalResult = "returned"
    /\ approved = "True"
    /\ evalActs.merge = 1
    /\ prState[cur] = "merged"

\* C3: an evaluation whose review listing has no latest-per-reviewer
\* APPROVED, or has a latest-per-reviewer CHANGES_REQUESTED, returns without
\* invoking merge_pr or comment_on_pr and without running
\* check_merge_criteria.
C3_PreFilterShortCircuit ==
    evalResult = "returned" /\ ~LatestWinsGate(seen.reviews) =>
        /\ evalActs = NoActs
        /\ status = NoStatus
C3_Witness ==
    /\ evalResult = "returned"
    /\ approved = "False"
    /\ \E i \in 1..Len(seen.reviews) :
          /\ seen.reviews[i].state = "CHANGES_REQUESTED"
          /\ IsLatest(seen.reviews, i)
    /\ \E i \in 1..Len(seen.reviews) : seen.reviews[i].state = "APPROVED"

\* The scenario of C4 as the evaluation read it: one review, alice's
\* approval; one check run, "unit-test", successful; the recorded base sha
\* equal to the base branch's head.
ScenarioC4 ==
    /\ evalResult = "returned"
    /\ seen.reviews = <<Review("alice", "APPROVED")>>
    /\ seen.reviews2 = <<Review("alice", "APPROVED")>>
    /\ seen.checks = <<CheckRun(NameUnitTest, "success")>>
    /\ seen.base_sha = seen.head

\* C4 as claimed: in the scenario check_merge_criteria yields can_merge true
\* with no blocking issue, and the evaluation invokes merge_pr once and posts
\* no comment.
C4_ScenarioMerges ==
    ScenarioC4 =>
        /\ Truthy(status.can_merge)
        /\ Failing(status) = {}
        /\ status.blocking_issues = <<>>
        /\ evalActs = [merge |-> 1, comment |-> 0]

\* C4 as amended: in the scenario no check run's name starts with "test", so
\* tests_passed is None, the only blocking issue is "All tests must pass",
\* can_merge is false, and the evaluation posts the blocking comment once and
\* does not invoke merge_pr.
C4_ScenarioBlocks ==
    ScenarioC4 =>
        /\ status = [can_merge |-> "False", checks_passed |-> "True",
                     tests_passed |-> "None", review_requirements_met |-> "True",
                     branch_up_to_date |-> "True",
                     blocking_issues |-> <<"All tests must pass">>]
        /\ evalActs = [merge |-> 0, comment |-> 1]
C4_Witness ==
    /\ ScenarioC4
    /\ evalActs.comment = 1
    /\ prState[cur] = "open"

\* C6: when the merge agent's process ends, every pull request of the open
\* listing it started from has been evaluated, also when a fetch raised during
\* one of them; and the evaluation a fetch raised in invoked neither merge_pr
\* nor comment_on_pr.
C6_FailureIsolation ==
    /\ mpc \in {"return", "raise"} => evaluated = Range(snapshot)
    /\ evalResult = "raised" => evalActs = NoActs

\* C7: the evaluation of a pull request that was already merged when it began
\* does not invoke merge_pr (so pr.merge is not called on it again); and an
\* exception never leaves an evaluation that invoked merge_pr, nor ends the
\* orchestrator: a refused merge stays inside merge_pr.
C7_NoSecondMerge ==
    /\ mergedAtStart => evalActs.merge = 0
    /\ evalActs.merge > 0 => evalResult \in {"running", "returned"} /\ mpc # "raise"
    /\ opc # "terminated"
C7_Witness ==
    /\ mergedAtStart
    /\ evalResult = "returned"
    /\ approved = "True"
    /\ evalActs.comment = 1

\* C9: in a cycle the agents' process operations are invoked in the order of
\* self.agents, one at a time, each at most once; when the cycle is over each
\* has been invoked exactly once; an agent that raised leaves the orchestrator
\* running.
C9_FixedOrderEveryCycle ==
    /\ IsPrefix(invoked, Agents)
    /\ opc \in {"sleep", "backoff"} => invoked = Agents
    /\ opc = "cycle" => Len(invoked) \in {agentIdx - 1, agentIdx}
    /\ mpc # "idle" => opc = "cycle" /\ Len(invoked) = 4
    /\ raised => opc # "terminated"
C9_Witness ==
    /\ raised
    /\ opc = "cycle"
    /\ agentIdx = 2
    /\ invoked = <<"SpecificationAgent">>

LastInvoked == IF invoked = <<>> THEN "none" ELSE invoked[Len(invoked)]

\* After a cycle, and after an error caught at main.py:60, the loop starts a
\* whole new cycle (or, from the sleep, takes the error path to it).
LoopsBack ==
    opc \in {"sleep", "backoff"} /\ opc' # opc =>
        \/ opc = "sleep" /\ opc' = "backoff"
        \/ opc' = "cycle" /\ agentIdx' = 1 /\ invoked' = <<>>

\* C10: run never ends, and every agent's process is invoked again and again:
\* what raises in a cycle or in the sleep after it is logged and the loop goes
\* on with a whole new cycle.
C10_CyclesForever ==
    /\ [](opc # "terminated")
    /\ [][LoopsBack]_vars
    /\ \A i \in 1..4 : []<>(LastInvoked = Agents[i])
C10_Witness ==
    /\ opc = "backoff"
    /\ invoked = Agents
    /\ raised

\* ----------------------------------------------------- SpecificationAgent
\* specification_agent.py:42, the id of the feature the initial document holds,
\* and a second feature.
FeatUserAuth ==
    <<"u", "s", "e", "r", "-", "a", "u", "t", "h">>
FeatApi ==
    <<"a", "p", "i">>
FeatureIds == <<FeatUserAuth, FeatApi>>
Statuses == {"pending", "in-progress", "completed"}
Feature(id, st) == [id |-> id, status |-> st]

\* specification_agent.py:109, f"feat: {feature['id']}"
FeatPrefix(id) == <<"f", "e", "a", "t", ":", " ">> \o id

\* developer_agent.py:98, the implementation pull request's title
TitleImplementation ==
    <<"f", "e", "a", "t", ":", " ", "u", "s", "e", "r", "-", "a", "u", "t",
    "h", " ", "-", " ", "I", "m", "p", "l", "e", "m", "e", "n", "t", " ",
    "U", "s", "e", "r", " ", "A", "u", "t", "h", "e", "n", "t", "i", "c",
    "a", "t", "i", "o", "n">>
\* the same feature, the type capitalised
TitleCapitalised ==
    <<"F", "e", "a", "t", ":", " ", "u", "s", "e", "r", "-", "a", "u", "t",
    "h">>
\* specification_agent.py:143, a title that names no feature
TitleStatusUpdate ==
    <<"U", "p", "d", "a", "t", "e", " ", "S", "p", "e", "c", "i", "f", "i",
    "c", "a", "t", "i", "o", "n", " ", "S", "t", "a", "t", "u", "s">>
Titles == {TitleImplementation, TitleCapitalised, TitleStatusUpdate}

\* specification_agent.py:107, repo.get_pulls(state='all'): every pull request,
\* newest first, with the fields the scan reads.
PullOf(p) ==
    [title |-> prTitle[p],
     state |-> IF prState[p] = "open" THEN "open" ELSE "closed",
     merged |-> prState[p] = "merged"]
get_pulls_all == [i \in 1..Len(Descending(PRs)) |-> PullOf(Descending(PRs)[i])]

\* specification_agent.py:108-117: the inner for loop over prs. The first
\* matching pull request that is merged or open decides and breaks the loop.
RECURSIVE scan_pulls(_, _)
scan_pulls(prs, id) ==
    IF prs = <<>> THEN "pending"
    ELSE IF startswith(lower(Head(prs).title), FeatPrefix(id))
         THEN IF Head(prs).merged THEN "completed"
              ELSE IF Head(prs).state = "open" THEN "in-progress"
              ELSE scan_pulls(Tail(prs), id)
         ELSE scan_pulls(Tail(prs), id)

\* specification_agent.py:104-117: the outer for loop; only a feature whose
\* status is "pending" is looked at.
updated_specs(doc, prs) ==
    [i \in 1..Len(doc) |->
        IF doc[i].status = "pending"
        THEN [doc[i] EXCEPT !.status = scan_pulls(prs, doc[i].id)]
        ELSE doc[i]]

\* specification_agent.py:100-150, reached from process (line 23) when the
\* document could be read. fetch "raise": repo.get_pulls fails for the first
\* pending feature and the exception leaves the run. Lines 119-150 put the
\* changed document on a new branch and open a pull request for it; publish
\* "raise": create_branch returned False or a call in the try block failed.
review_and_update_specifications ==
    /\ specDoc # <<>>
    /\ \E fetch \in Outcomes, publish \in Outcomes :
          IF fetch = "raise" /\ \E i \in 1..Len(specDoc) : specDoc[i].status = "pending"
          THEN /\ current_specs' = <<>>
               /\ updated' = FALSE
               /\ specUpdate' = specUpdate
          ELSE /\ current_specs' = updated_specs(specDoc, get_pulls_all)
               /\ updated' = (current_specs' # specDoc)
               /\ specUpdate' = IF updated' /\ publish = "ok"
                                THEN current_specs' ELSE specUpdate
    /\ UNCHANGED <<forgeVars, envSteps, orchVars, mergeVars, prTitle, specDoc,
                   reviewForge, devForge, reviewVars, devVars>>

\* The status pull request is merged into the default branch: the document the
\* agents read next is the proposed one.
AcceptSpecUpdate ==
    /\ specUpdate # <<>>
    /\ specDoc' = specUpdate
    /\ specUpdate' = <<>>
    /\ UNCHANGED <<forgeVars, envSteps, orchVars, mergeVars, prTitle, specVars,
                   reviewForge, devForge, reviewVars, devVars>>

\* Every document of the two features, and every state and title of the pull
\* requests.
StatusInit ==
    /\ prState \in [PRs -> {"open", "merged", "closed"}]
    /\ prTitle \in [PRs -> Titles]
    /\ specDoc \in {<<Feature(FeatUserAuth, a), Feature(FeatApi, b)>> :
                      a \in Statuses, b \in Statuses}
    /\ specUpdate = <<>>
    /\ current_specs = <<>>
    /\ updated = FALSE
    /\ reviews = [p \in PRs |-> <<>>]
    /\ checks = [p \in PRs |-> <<>>]
    /\ prBaseSha = [p \in PRs |-> 1]
    /\ baseHead = 1
    /\ comments = [p \in PRs |-> 0]
    /\ envSteps = 0
    /\ OrchInit
    /\ cycle = MaxCount
    /\ MergeIdle
    /\ ReviewForgeIdle
    /\ ReviewIdle
    /\ DevForgeIdle
    /\ DevIdle

StatusNext == review_and_update_specifications \/ AcceptSpecUpdate \/ ExternalMerge

StatusSpec == StatusInit /\ [][StatusNext]_vars

\* ------------------------------------------------------------- C11, C12
\* The pull requests whose title names the feature, as line 109 matches them.
MatchingPulls(id) == {p \in PRs : startswith(lower(prTitle[p]), FeatPrefix(id))}
\* The status by the rule "merged if any is merged, else open if any is open".
StatusByAnyRule(id) ==
    IF \E p \in MatchingPulls(id) : prState[p] = "merged" THEN "completed"
    ELSE IF \E p \in MatchingPulls(id) : prState[p] = "open" THEN "in-progress"
    ELSE "pending"
\* A run of review_and_update_specifications that read the pull requests.
StatusRun == review_and_update_specifications /\ current_specs' # <<>>

\* C11: a run leaves every pending feature with the status the rule gives
\* over all matching pull requests: completed if any is merged, else
\* in-progress if any is open, else pending, whatever the listing order.
C11_StatusByAnyRule ==
    [][StatusRun =>
          \A i \in 1..Len(specDoc) :
              specDoc[i].status = "pending"
                  => current_specs'[i].status = StatusByAnyRule(specDoc[i].id)]_vars

\* C12: a run moves a feature recorded as in-progress whose matching pull
\* request has been merged to completed.
C12_InProgressCompletes ==
    [][StatusRun =>
          \A i \in 1..Len(specDoc) :
              /\ specDoc[i].status = "in-progress"
              /\ \E p \in MatchingPulls(specDoc[i].id) : prState[p] = "merged"
              => current_specs'[i].status = "completed"]_vars

\* ------------------------------------------------------------ ReviewAgent
MaxCommits == 2
\* review_agent.py:79, the longest subject line that draws no issue
SubjectLimit == 72
\* review_agent.py:76, commit.sha[:7]
ShaPrefix == 7

Repeat(c, n) == [i \in 1..n |-> c]
Commit(sha, msg) == [sha |-> sha, message |-> msg]

\* review_agent.py:75, the types the pattern names
CommitTypes ==
    { <<"f", "e", "a", "t">>,
      <<"f", "i", "x">>,
      <<"d", "o", "c", "s">>,
      <<"s", "t", "y", "l", "e">>,
      <<"r", "e", "f", "a", "c", "t", "o", "r">>,
      <<"t", "e", "s", "t">>,
      <<"c", "h", "o", "r", "e">> }

\* re.match(r'^(feat|...|chore)(\(.+\))?: .+', msg) on a message read from
\* its first character: `.` is any character but a newline, and the match
\* may stop before the end of the message.
NoNewline(m, a, b) == \A i \in a..b : m[i] # "\n"
\* ": .+" right after the first k characters
RestMatches(m, k) ==
    /\ Len(m) >= k + 3
    /\ m[k + 1] = ":"
    /\ m[k + 2] = " "
    /\ m[k + 3] # "\n"
\* "\(.+\)" right after the first k characters, closing at any later ")"
ScopeMatches(m, k) ==
    /\ Len(m) >= k + 3
    /\ m[k + 1] = "("
    /\ \E j \in (k + 3)..Len(m) :
          /\ m[j] = ")"
          /\ NoNewline(m, k + 2, j - 1)
          /\ RestMatches(m, j)
re_match(m) ==
    \E t \in CommitTypes :
        /\ startswith(m, t)
        /\ RestMatches(m, Len(t)) \/ ScopeMatches(m, Len(t))

\* review_agent.py:79, msg.split('\n')[0]
FirstLine(m) ==
    IF \E i \in 1..Len(m) : m[i] = "\n"
    THEN SubSeq(m, 1, (CHOOSE i \in 1..Len(m) :
                          m[i] = "\n" /\ NoNewline(m, 1, i - 1)) - 1)
    ELSE m
ShortSha(sha) == SubSeq(sha, 1, IF Len(sha) < ShaPrefix THEN Len(sha) ELSE ShaPrefix)

\* review_agent.py:76 and 80, the two issue texts; both begin with the cross
\* mark is_blocking_issue looks for.
FormatIssue(sha) ==
    [glyph |-> "cross", sha |-> ShortSha(sha),
     text |-> "doesn't follow conventional commit format"]
SubjectIssue(sha) ==
    [glyph |-> "cross", sha |-> ShortSha(sha),
     text |-> "has too long subject line (>72 chars)"]

\* review_agent.py:71-80, the body of the for loop for one commit
commit_issues_elif(c) ==
    IF ~re_match(c.message) THEN <<FormatIssue(c.sha)>>
    ELSE IF Len(FirstLine(c.message)) > SubjectLimit THEN <<SubjectIssue(c.sha)>>
    ELSE <<>>
commit_issues(c) ==
    (IF ~re_match(c.message) THEN <<FormatIssue(c.sha)>> ELSE <<>>)
    \o (IF Len(FirstLine(c.message)) > SubjectLimit
        THEN <<SubjectIssue(c.sha)>> ELSE <<>>)

\* review_agent.py:66-82
RECURSIVE check_commit_messages(_)
check_commit_messages(cs) ==
    IF cs = <<>> THEN <<>>
    ELSE commit_issues(Head(cs)) \o check_commit_messages(Tail(cs))

\* The messages and shas the commits are drawn from: the two of
\* tests/test_agents.py:139-144 and others around the pattern and the limit.
MsgFeat ==
    <<"f", "e", "a", "t", ":", " ", "a", "d", "d", " ", "u", "s", "e", "r",
    " ", "a", "u", "t", "h", "e", "n", "t", "i", "c", "a", "t", "i", "o",
    "n">>
MsgInvalid ==
    <<"i", "n", "v", "a", "l", "i", "d", " ", "c", "o", "m", "m", "i", "t",
    " ", "m", "e", "s", "s", "a", "g", "e">>
MsgScoped ==
    <<"f", "i", "x", "(", "a", "p", "i", ")", ":", " ", "h", "a", "n", "d",
    "l", "e", " ", "t", "i", "m", "e", "o", "u", "t">>
MsgEmptyScope ==
    <<"f", "i", "x", "(", ")", ":", " ", "x">>
MsgCapital ==
    <<"F", "e", "a", "t", ":", " ", "x">>
MsgNoSpace ==
    <<"f", "e", "a", "t", ":", "x">>
MsgEdgeFeat == <<"f", "e", "a", "t", ":", " ">> \o Repeat("a", SubjectLimit - 6)
MsgLongFeat == <<"f", "e", "a", "t", ":", " ">> \o Repeat("a", SubjectLimit - 5)
MsgLongInvalid == Repeat("x", SubjectLimit + 8)
MsgBody == <<"f", "e", "a", "t", ":", " ", "a", "\n">> \o Repeat("b", SubjectLimit + 8)
Messages ==
    {MsgFeat, MsgInvalid, MsgScoped, MsgEmptyScope, MsgCapital, MsgNoSpace,
     MsgEdgeFeat, MsgLongFeat, MsgLongInvalid, MsgBody}
ShaAbc ==
    <<"a", "b", "c", "1", "2", "3">>
ShaDef ==
    <<"d", "e", "f", "4", "5", "6">>
ShaFull ==
    <<"a", "1", "b", "2", "c", "3", "d", "4", "e", "5">>
Shas == {ShaAbc, ShaDef, ShaFull}
SampleCommits == {Commit(sha, msg) : sha \in Shas, msg \in Messages}

\* check_commit_messages called once on pull request 1, whose commits are
\* drawn from every list up to MaxCommits long.
CommitInit ==
    /\ commits \in {[p \in PRs |-> IF p = 1 THEN cs ELSE <<>>] :
                      cs \in SeqsUpTo(SampleCommits, MaxCommits)}
    /\ prState = [p \in PRs |-> "open"]
    /\ reviews = [p \in PRs |-> <<>>]
    /\ checks = [p \in PRs |-> <<>>]
    /\ prBaseSha = [p \in PRs |-> 1]
    /\ baseHead = 1
    /\ comments = [p \in PRs |-> 0]
    /\ envSteps = 0
    /\ OrchInit
    /\ cycle = MaxCount
    /\ fileIssues = [p \in PRs |-> <<>>]
    /\ MergeIdle
    /\ SpecIdle
    /\ ReviewIdle
    /\ DevForgeIdle
    /\ DevIdle

\* review_agent.py:33-35 on pull request 1
CallCheckCommitMessages ==
    /\ rpc = "idle"
    /\ review_comments' = check_commit_messages(commits[1])
    /\ rpc' = "check_code"
    /\ UNCHANGED <<forgeVars, envSteps, orchVars, mergeVars, forge2Vars, specVars,
                   rqueue, rcur, devVars>>

CommitNext == CallCheckCommitMessages

CommitSpec == CommitInit /\ [][CommitNext]_vars

\* -------------------------------------------------------------------- C13
\* The messages above that follow the conventional-commit pattern, and those
\* whose first line is longer than 72 characters, told by reading them.
ConventionalMessages == {MsgFeat, MsgScoped, MsgEdgeFeat, MsgLongFeat, MsgBody}
LongSubjects == {MsgLongFeat, MsgLongInvalid}
ShortFull ==
    <<"a", "1", "b", "2", "c", "3", "d">>
ExpectedShortSha(sha) == IF sha = ShaFull THEN ShortFull ELSE sha
IssuesNaming(out, text, short) ==
    Cardinality({j \in 1..Len(out) : out[j].text = text /\ out[j].sha = short})
CommitsWith(cs, msgs, short) ==
    Cardinality({i \in 1..Len(cs) :
                    cs[i].message \in msgs /\ ExpectedShortSha(cs[i].sha) = short})

\* C13: check_commit_messages returns one issue for each commit whose message
\* does not follow the pattern and one for each commit whose first line is
\* longer than 72 characters, each naming the commit's short sha, and nothing
\* else.
C13_OneIssuePerViolation ==
    rpc = "check_code" =>
        LET cs == commits[1]
            out == review_comments
        IN /\ \A sha \in Shas :
                 /\ IssuesNaming(out, FormatIssue(sha).text, ExpectedShortSha(sha))
                      = CommitsWith(cs, Messages \ ConventionalMessages,
                                    ExpectedShortSha(sha))
                 /\ IssuesNaming(out, SubjectIssue(sha).text, ExpectedShortSha(sha))
                      = CommitsWith(cs, LongSubjects, ExpectedShortSha(sha))
           /\ Len(out) = Cardinality({i \in 1..Len(cs) :
                                         cs[i].message \notin ConventionalMessages})
                          + Cardinality({i \in 1..Len(cs) :
                                            cs[i].message \in LongSubjects})
\* The invalid commit of tests/test_agents.py:143-144 and a commit that
\* breaks both rules.
C13_Witness ==
    /\ rpc = "check_code"
    /\ commits[1] = <<Commit(ShaDef, MsgInvalid), Commit(ShaFull, MsgLongInvalid)>>
    /\ Len(review_comments) = 3


\* --------------------------------------------------------- DeveloperAgent
\* developer_agent.py:54-59, the keys of files_to_create in insertion order
FilesToCreate ==
    <<"src/auth/user.py", "src/auth/jwt_handler.py",
      "src/auth/password_handler.py", "tests/auth/test_user_auth.py">>

\* developer_agent.py:23-24: the features the for loop hands to
\* implement_feature, as indices into the document, in order.
RECURSIVE pending_from(_, _)
pending_from(doc, i) ==
    IF i > Len(doc) THEN <<>>
    ELSE (IF doc[i].status = "pending" THEN <<i>> ELSE <<>>)
         \o pending_from(doc, i + 1)

\* base_agent.py:84-96 for feat/<feature-id>: get_branch or create_git_ref
\* fails (outcome "raise"), and create_git_ref fails when the ref exists.
create_branch_force(f, outcome) == outcome = "ok"
create_branch(f, outcome) == outcome = "ok" /\ f \notin branches

\* developer_agent.py:61-71: where implement_user_auth goes after the n-th
\* create_file returned, and after it raised (line 71 returns, and
\* implement_feature with it).
AfterFileCreated(n) ==
    IF n < Len(FilesToCreate) THEN "create_file" ELSE "create_pull_request"
AfterFileFailureContinue(n) == AfterFileCreated(n)
AfterFileFailure(n) == "for"

\* main.py:45-46 for DeveloperAgent, then developer_agent.py:17-20.
\* get_specifications returns None when the document cannot be read.
StartDeveloperAgent ==
    /\ dpc = "idle"
    /\ \E outcome \in Outcomes :
          IF outcome = "ok" /\ specDoc # <<>>
          THEN dqueue' = pending_from(specDoc, 1) /\ dpc' = "for"
          ELSE dqueue' = <<>> /\ dpc' = "return"
    /\ UNCHANGED <<forgeVars, envSteps, orchVars, mergeVars, forge2Vars, specVars,
                   reviewVars, dcur, devActs>>

\* developer_agent.py:23-25 and 36-45: the next pending feature, and
\* create_branch for it. Only user-auth has an implementation (line 44).
DevCreateBranch ==
    /\ dpc = "for"
    /\ dqueue # <<>>
    /\ dcur' = Head(dqueue)
    /\ dqueue' = Tail(dqueue)
    /\ \E outcome \in Outcomes :
          LET ok == create_branch(Head(dqueue), outcome)
          IN /\ branches' = IF ok THEN branches \cup {Head(dqueue)} ELSE branches
             /\ devActs' = [NoDevActs EXCEPT !.existed = Head(dqueue) \in branches,
                                             !.create_branch = 1,
                                             !.branch_ok = ok]
             /\ dpc' = IF ok /\ specDoc[Head(dqueue)].id = FeatUserAuth
                       THEN "create_file" ELSE "for"
    /\ UNCHANGED <<forgeVars, envSteps, orchVars, mergeVars, specForge, reviewForge,
                   files, implPulls, specVars, reviewVars>>

\* developer_agent.py:61-71, one pass of the loop over files_to_create
DevCreateFile ==
    /\ dpc = "create_file"
    /\ \E outcome \in Outcomes :
          LET n == devActs.create_file + 1
          IN IF outcome = "ok"
             THEN /\ files' = [files EXCEPT ![dcur] = Append(@, FilesToCreate[n])]
                  /\ devActs' = [devActs EXCEPT !.create_file = n,
                                                !.created = @ + 1]
                  /\ dpc' = AfterFileCreated(n)
             ELSE /\ files' = files
                  /\ devActs' = [devActs EXCEPT !.create_file = n]
                  /\ dpc' = AfterFileFailure(n)
    /\ UNCHANGED <<forgeVars, envSteps, orchVars, mergeVars, specForge, reviewForge,
                   branches, implPulls, specVars, reviewVars, dqueue, dcur>>

\* developer_agent.py:96-100 with base_agent.py:27-44: create_pull_request
\* catches a failure of repo.create_pull and returns None.
DevCreatePull ==
    /\ dpc = "create_pull_request"
    /\ \E outcome \in Outcomes :
          IF outcome = "ok"
          THEN /\ implPulls' = [implPulls EXCEPT ![dcur] = Bump(@)]
               /\ devActs' = [devActs EXCEPT !.create_pull_request = @ + 1,
                                             !.opened = @ + 1]
          ELSE /\ implPulls' = implPulls
               /\ devActs' = [devActs EXCEPT !.create_pull_request = @ + 1]
    /\ dpc' = "for"
    /\ UNCHANGED <<forgeVars, envSteps, orchVars, mergeVars, specForge, reviewForge,
                   branches, files, specVars, reviewVars, dqueue, dcur>>

\* developer_agent.py:23: the features are exhausted, process returns.
DevProcessReturn ==
    /\ dpc = "for"
    /\ dqueue = <<>>
    /\ dpc' = "return"
    /\ UNCHANGED <<forgeVars, envSteps, orchVars, mergeVars, forge2Vars, specVars,
                   reviewVars, dqueue, dcur, devActs>>

\* main.py:47 for DeveloperAgent: back in run_agent_cycle; the next cycle calls
\* process again.
CompleteDeveloperAgent ==
    /\ dpc = "return"
    /\ dpc' = "idle"
    /\ UNCHANGED <<forgeVars, envSteps, orchVars, mergeVars, forge2Vars, specVars,
                   reviewVars, dqueue, dcur, devActs>>

\* Every document of the two features or none, and the feature branches that
\* exist before the agent first runs.
DevInit ==
    /\ specDoc \in {<<>>} \cup {<<Feature(FeatUserAuth, a), Feature(FeatApi, b)>> :
                                   a \in Statuses, b \in Statuses}
    /\ branches \in SUBSET (1..Len(FeatureIds))
    /\ files = [f \in 1..Len(FeatureIds) |-> <<>>]
    /\ implPulls = [f \in 1..Len(FeatureIds) |-> 0]
    /\ DevIdle
    /\ prTitle = [p \in PRs |-> <<>>]
    /\ specUpdate = <<>>
    /\ current_specs = <<>>
    /\ updated = FALSE
    /\ prState = [p \in PRs |-> "open"]
    /\ reviews = [p \in PRs |-> <<>>]
    /\ checks = [p \in PRs |-> <<>>]
    /\ prBaseSha = [p \in PRs |-> 1]
    /\ baseHead = 1
    /\ comments = [p \in PRs |-> 0]
    /\ envSteps = 0
    /\ OrchInit
    /\ cycle = MaxCount
    /\ MergeIdle
    /\ ReviewForgeIdle
    /\ ReviewIdle

DevNext ==
    \/ StartDeveloperAgent
    \/ DevCreateBranch
    \/ DevCreateFile
    \/ DevCreatePull
    \/ DevProcessReturn
    \/ CompleteDeveloperAgent

DevSpec == DevInit /\ [][DevNext]_vars

\* -------------------------------------------------------------- C14, C20
\* implement_feature was called for user-auth and has returned.
UserAuthReturned ==
    /\ dcur # 0
    /\ specDoc[dcur].id = FeatUserAuth
    /\ devActs.create_branch = 1
    /\ dpc \in {"for", "return", "idle"}

\* C14 as stated: after implement_feature for user-auth, a pull request was
\* created iff branch creation succeeded and all four files were created.
C14_PullCreatedIffFilesCreated ==
    UserAuthReturned =>
        (devActs.opened = 1
            <=> devActs.branch_ok /\ devActs.created = Len(FilesToCreate))

\* C14: implement_feature for user-auth calls create_branch once and calls
\* create_pull_request, once, iff the branch was created and all four files
\* were; then exactly four files were created; a failed branch creation
\* leaves no file and no call, a failed file creation is the last create_file
\* call, and a pull request exists only if create_pull_request was called.
C14_PullRequestedIffFilesCreated ==
    UserAuthReturned =>
        /\ devActs.create_branch = 1
        /\ devActs.create_pull_request \in {0, 1}
        /\ devActs.create_pull_request = 1
              <=> devActs.branch_ok /\ devActs.created = Len(FilesToCreate)
        /\ devActs.create_pull_request = 1
              => devActs.create_file = Len(FilesToCreate) /\ files[dcur] = FilesToCreate
        /\ ~devActs.branch_ok => devActs.create_file = 0
        /\ devActs.create_file \in {devActs.created, devActs.created + 1}
        /\ devActs.create_file > devActs.created
              => files[dcur] = SubSeq(FilesToCreate, 1, devActs.created)
        /\ devActs.opened <= devActs.create_pull_request
\* The second file could not be created.
C14_Witness ==
    /\ UserAuthReturned
    /\ devActs.branch_ok
    /\ devActs.create_file = 2
    /\ devActs.created = 1
    /\ devActs.create_pull_request = 0

\* C20: no feature ever has more than one implementation pull request, and an
\* implement_feature call that found the feature's branch on the forge
\* created no branch, no file and no pull request.
C20_AttemptedOnce ==
    /\ \A f \in DOMAIN implPulls : implPulls[f] <= 1
    /\ devActs.existed =>
          /\ ~devActs.branch_ok
          /\ devActs.create_file = 0
          /\ devActs.create_pull_request = 0
\* user-auth is still pending, its first attempt stopped after two files, and
\* a later call has returned without doing anything.
C20_Witness ==
    /\ UserAuthReturned
    /\ specDoc[dcur].status = "pending"
    /\ dcur \in branches
    /\ Len(files[dcur]) = 2
    /\ implPulls[dcur] = 0
    /\ devActs.existed
    /\ devActs.create_file = 0

\* -------------------------------------------------------------- C15, C18
\* C15: an evaluation reads the review list once: the listing the
\* review-requirements sub-check was computed from is the listing the
\* pre-filter was computed from.
C15_OneReviewListing ==
    /\ evalResult \in {"running", "returned"}
    /\ status.review_requirements_met # "unset"
    => seen.reviews2 = seen.reviews

\* The merge criteria on what the forge holds now for pull request p.
ForgeSatisfiesCriteria(p) ==
    /\ is_pr_approved(reviews[p])
    /\ Truthy(check_merge_criteria(checks[p], reviews[p], prBaseSha[p],
                                   baseHead).can_merge)
\* The merge criteria on what the evaluation under way read.
SeenSatisfiesCriteria ==
    /\ is_pr_approved(seen.reviews)
    /\ Truthy(check_merge_criteria(seen.checks, seen.reviews2, seen.base_sha,
                                   seen.head).can_merge)
\* merge_pr merges the pull request in this step.
MergePerformed ==
    /\ mpc = "merge_pr"
    /\ mpc' # "merge_pr"
    /\ prState[cur] = "open"
    /\ prState'[cur] = "merged"

\* C18 as stated: a merge is performed only if the forge, at the moment of the
\* merge call, holds reviews, check runs and a base head that satisfy the
\* merge criteria.
C18_MergeOnlyIfStillMergeable ==
    [][MergePerformed => ForgeSatisfiesCriteria(cur)]_vars

\* C18: merge_pr is invoked only in an evaluation whose own reads satisfied
\* the merge criteria.
C18_MergeOnFetchedInputs == evalActs.merge = 1 => SeenSatisfiesCriteria
\* The agent merged a pull request on which bob had requested changes after
\* the agent read its reviews.
C18_Witness ==
    /\ evalActs.merge = 1
    /\ cur # 0
    /\ prState[cur] = "merged"
    /\ ~mergedAtStart
    /\ envSteps = 1
    /\ seen.reviews = seen.reviews2
    /\ reviews[cur] = Append(seen.reviews, Review("bob", "CHANGES_REQUESTED"))


\* ------------------------------------------ cycles in which no call fails
\* The step is one in which no forge call failed: no process raised, the sleep
\* returned, get_open_prs returned the open pull requests, and a comment_on_pr
\* that was invoked posted its comment.
NoFaultStep ==
    /\ ~raised'
    /\ opc' # "backoff"
    /\ evalResult' # "raised"
    /\ (mpc = "idle" /\ mpc' = "for") => snapshot' = get_open_prs("ok")
    /\ evalActs'.comment > evalActs.comment => comments'[cur] = Bump(comments[cur])

\* The repository of Init with the check runs CI may have left, at the first
\* cycle.
CommentInit ==
    /\ prState = [p \in PRs |-> "open"]
    /\ reviews \in [PRs -> InitReviewLists]
    /\ checks \in [PRs -> ExternalCheckLists]
    /\ prBaseSha = [p \in PRs |-> 1]
    /\ baseHead = 1
    /\ comments = [p \in PRs |-> 0]
    /\ envSteps = 0
    /\ OrchInit
    /\ cycle = 1
    /\ MergeIdle
    /\ SideIdle

\* The orchestrator's steps, the forge's other users making none.
CommentNext ==
    \/ RunAgent /\ NoFaultStep
    \/ Sleep /\ NoFaultStep
    \/ StartMergeAgent /\ NoFaultStep
    \/ EvalGetPull /\ NoFaultStep
    \/ EvalIsPrApproved /\ NoFaultStep
    \/ EvalCheckRuns /\ NoFaultStep
    \/ EvalReviews /\ NoFaultStep
    \/ EvalBranch /\ NoFaultStep
    \/ EvalCommitMessage /\ NoFaultStep
    \/ EvalMerge /\ NoFaultStep
    \/ EvalComment /\ NoFaultStep
    \/ ProcessReturn /\ NoFaultStep
    \/ CompleteMergeAgent /\ NoFaultStep

CommentSpec == CommentInit /\ [][CommentNext]_vars

\* -------------------------------------------------------------------- C19
\* Pull request p is open, passes the pre-filter and fails a sub-check, and
\* the base branch is where it was at the first cycle.
BlockedUnchanged(p) ==
    /\ prState[p] = "open"
    /\ baseHead = 1
    /\ is_pr_approved(reviews[p])
    /\ ~Truthy(check_merge_criteria(checks[p], reviews[p], prBaseSha[p],
                                    baseHead).can_merge)

\* C19: when the n-th cycle is over, an open, unchanged pull request that
\* passes the pre-filter and fails a sub-check carries n blocking comments
\* (both counted up to MaxCount), and each was made from the same merge
\* status.
C19_CommentEveryCycle ==
    \A p \in PRs :
        BlockedUnchanged(p) =>
            /\ opc = "sleep" => comments[p] = cycle
            /\ comments[p] \in {cycle - 1, cycle}
            /\ (cur = p /\ evalActs.comment = 1) =>
                   status = check_merge_criteria(checks[p], reviews[p],
                                                 prBaseSha[p], baseHead)
\* Two cycles are over and the pull request carries two comments.
C19_Witness ==
    /\ opc = "sleep"
    /\ cycle = 2
    /\ \E p \in PRs : BlockedUnchanged(p) /\ comments[p] = 2

\* ----------------------------------------- ReviewAgent.review_pull_request
\* review_agent.py:62, self.github.get_user().login; the agents share one
\* token (main.py:34-39). The login is the one of tests/test_agents.py:28.
BotLogin == "test-bot"

\* review_agent.py:60-64
has_reviewed_pr_never(rs) == FALSE
has_reviewed_pr_approved(rs) ==
    \E i \in 1..Len(rs) : rs[i].user = BotLogin /\ rs[i].state = "APPROVED"
has_reviewed_pr(rs) == \E i \in 1..Len(rs) : rs[i].user = BotLogin

\* review_agent.py:151-153
is_blocking_issue(c) == c.glyph = "cross"

\* review_agent.py:48-58, the event of the review that is submitted
review_event(cs) ==
    IF cs # <<>>
    THEN IF \E i \in 1..Len(cs) : is_blocking_issue(cs[i])
         THEN "REQUEST_CHANGES" ELSE "COMMENT"
    ELSE "APPROVE"
\* The state the forge lists a review of that event with.
ReviewStateOf(event) ==
    CASE event = "APPROVE" -> "APPROVED"
      [] event = "REQUEST_CHANGES" -> "CHANGES_REQUESTED"
      [] event = "COMMENT" -> "COMMENTED"

\* review_agent.py:93, an issue that does not block
WildcardIssue ==
    [glyph |-> "warning", sha |-> <<>>, text |-> "Avoid using wildcard imports"]

\* main.py:45-46 for ReviewAgent, then review_agent.py:14.
StartReviewAgent ==
    /\ opc = "cycle"
    /\ agentIdx = 3
    /\ rpc = "idle"
    /\ invoked' = Append(invoked, Agents[agentIdx])
    /\ \E outcome \in Outcomes : rqueue' = get_open_prs(outcome)
    /\ rpc' = "for"
    /\ UNCHANGED <<forgeVars, envSteps, opc, agentIdx, raised, cycle, mergeVars,
                   forge2Vars, specVars, devVars, rcur, review_comments>>

\* review_agent.py:15-23: the next pr of open_prs, and repo.get_pull on it.
\* No call of review_pull_request is in a try block: an exception leaves
\* process.
ReviewGetPull ==
    /\ rpc = "for"
    /\ rqueue # <<>>
    /\ rcur' = Head(rqueue)
    /\ rqueue' = Tail(rqueue)
    /\ review_comments' = <<>>
    /\ \E outcome \in Outcomes :
          rpc' = IF outcome = "ok" THEN "has_reviewed_pr" ELSE "raise"
    /\ UNCHANGED <<forgeVars, envSteps, orchVars, mergeVars, forge2Vars, specVars,
                   devVars>>

\* review_agent.py:26-27 with 60-64
ReviewHasReviewed ==
    /\ rpc = "has_reviewed_pr"
    /\ \E outcome \in Outcomes :
          rpc' = IF outcome = "raise" THEN "raise"
                 ELSE IF has_reviewed_pr(reviews[rcur]) THEN "for"
                 ELSE "check_commit_messages"
    /\ UNCHANGED <<forgeVars, envSteps, orchVars, mergeVars, forge2Vars, specVars,
                   devVars, rqueue, rcur, review_comments>>

\* review_agent.py:33-35
ReviewCheckCommits ==
    /\ rpc = "check_commit_messages"
    /\ \E outcome \in Outcomes :
          IF outcome = "ok"
          THEN /\ review_comments' =
                      review_comments \o check_commit_messages(commits[rcur])
               /\ rpc' = "check_code"
          ELSE /\ review_comments' = review_comments
               /\ rpc' = "raise"
    /\ UNCHANGED <<forgeVars, envSteps, orchVars, mergeVars, forge2Vars, specVars,
                   devVars, rqueue, rcur>>

\* review_agent.py:38-45: check_code and check_tests read the files of the
\* pull request; what they find in them is what the forge holds as fileIssues.
ReviewCheckFiles ==
    /\ rpc = "check_code"
    /\ \E outcome \in Outcomes :
          IF outcome = "ok"
          THEN /\ review_comments' = review_comments \o fileIssues[rcur]
               /\ rpc' = "create_review"
          ELSE /\ review_comments' = review_comments
               /\ rpc' = "raise"
    /\ UNCHANGED <<forgeVars, envSteps, orchVars, mergeVars, forge2Vars, specVars,
                   devVars, rqueue, rcur>>

\* review_agent.py:48-58
ReviewCreateReview ==
    /\ rpc = "create_review"
    /\ \E outcome \in Outcomes :
          IF outcome = "ok"
          THEN /\ reviews' = [reviews EXCEPT ![rcur] =
                     Append(@, Review(BotLogin,
                                      ReviewStateOf(review_event(review_comments))))]
               /\ rpc' = "for"
          ELSE /\ reviews' = reviews
               /\ rpc' = "raise"
    /\ UNCHANGED <<prState, checks, prBaseSha, baseHead, comments, envSteps,
                   orchVars, mergeVars, forge2Vars, specVars, devVars, rqueue,
                   rcur, review_comments>>

\* review_agent.py:15: open_prs is exhausted, process returns.
ReviewProcessReturn ==
    /\ rpc = "for"
    /\ rqueue = <<>>
    /\ rpc' = "return"
    /\ UNCHANGED <<forgeVars, envSteps, orchVars, mergeVars, forge2Vars, specVars,
                   devVars, rqueue, rcur, review_comments>>

\* main.py:47-49 for ReviewAgent: back in run_agent_cycle.
CompleteReviewAgent ==
    /\ opc = "cycle"
    /\ rpc \in {"return", "raise"}
    /\ AfterProcess(IF rpc = "raise" THEN "raise" ELSE "ok")
    /\ rpc' = "idle"
    /\ rqueue' = <<>>
    /\ rcur' = 0
    /\ review_comments' = <<>>
    /\ UNCHANGED <<forgeVars, envSteps, invoked, cycle, mergeVars, forge2Vars,
                   specVars, devVars>>

ReviewAgentNext ==
    \/ StartReviewAgent
    \/ ReviewGetPull
    \/ ReviewHasReviewed
    \/ ReviewCheckCommits
    \/ ReviewCheckFiles
    \/ ReviewCreateReview
    \/ ReviewProcessReturn
    \/ CompleteReviewAgent

\* SpecificationAgent and DeveloperAgent, each process in one step.
RunSpecOrDevAgent == RunAgents(1..2)

\* The commits pushed to an open pull request while the agents run.
PushedCommits == {Commit(ShaAbc, MsgFeat), Commit(ShaDef, MsgInvalid)}
\* A contributor pushes a commit.
ExternalPush ==
    /\ envSteps < MaxEnv
    /\ \E p \in PRs, c \in PushedCommits :
          /\ prState[p] = "open"
          /\ commits' = [commits EXCEPT ![p] = Append(@, c)]
    /\ envSteps' = envSteps + 1
    /\ UNCHANGED <<forgeVars, orchVars, mergeVars, specForge, fileIssues, devForge,
                   specVars, reviewVars, devVars>>

\* A repository in which nobody but the agents reviews: two open pull
\* requests without reviews, each with one commit and with or without an
\* advisory issue in its files, at the first cycle.
BotInit ==
    /\ prState = [p \in PRs |-> "open"]
    /\ reviews = [p \in PRs |-> <<>>]
    /\ checks \in [PRs -> InitCheckLists]
    /\ prBaseSha = [p \in PRs |-> 1]
    /\ baseHead = 1
    /\ comments = [p \in PRs |-> 0]
    /\ envSteps = 0
    /\ commits \in [PRs -> {<<c>> : c \in PushedCommits}]
    /\ fileIssues \in [PRs -> {<<>>, <<WildcardIssue>>}]
    /\ OrchInit
    /\ cycle = 1
    /\ MergeIdle
    /\ SpecIdle
    /\ ReviewIdle
    /\ DevForgeIdle
    /\ DevIdle

BotNext ==
    \/ RunSpecOrDevAgent
    \/ ReviewAgentNext
    \/ MergeAgentNext
    \/ Sleep
    \/ Backoff
    \/ ExternalPush

BotSpec == BotInit /\ [][BotNext]_vars

\* -------------------------------------------------------------- C16, C17
BotReviews(p) == {i \in 1..Len(reviews[p]) : reviews[p][i].user = BotLogin}
BotRequestedChanges(p) ==
    \E i \in BotReviews(p) : reviews[p][i].state = "CHANGES_REQUESTED"

\* C16: where only the agents review, a pull request on which ReviewAgent has
\* requested changes keeps that review as its only and latest review; it
\* stays open and without a comment, and no evaluation of it passes the
\* pre-filter or invokes merge_pr or comment_on_pr.
C16_ChangesRequestedBlocksForever ==
    \A p \in PRs :
        BotRequestedChanges(p) =>
            /\ reviews[p] = <<Review(BotLogin, "CHANGES_REQUESTED")>>
            /\ ~is_pr_approved(reviews[p])
            /\ prState[p] = "open"
            /\ comments[p] = 0
            /\ cur = p => approved # "True" /\ evalActs = NoActs
\* In a later cycle the merge agent has evaluated such a pull request.
C16_Witness ==
    /\ cycle = 2
    /\ cur # 0
    /\ BotRequestedChanges(cur)
    /\ approved = "False"
    /\ evalResult = "returned"

\* C17: no pull request ever carries more than one review by the bot's login.
C17_AtMostOneBotReview == \A p \in PRs : Cardinality(BotReviews(p)) <= 1
\* A commit that breaks the format was pushed to a pull request the bot had
\* commented on, and a later review_pull_request on it has returned at
\* has_reviewed_pr, without collecting an issue or submitting a review.
C17_Witness ==
    /\ cycle = 2
    /\ rpc = "for"
    /\ rcur # 0
    /\ review_comments = <<>>
    /\ reviews[rcur] = <<Review(BotLogin, "COMMENTED")>>
    /\ commits[rcur] = <<Commit(ShaAbc, MsgFeat), Commit(ShaDef, MsgInvalid)>>

====
